---- MODULE Spec2Model ----
(***************************************************************************)
(* Availability / booking-conflict engine of heritage-reservations         *)
(* (src/app.py): the day-by-day occupancy check is_available, the direct   *)
(* booking handler book_room and the OTA webhook handler ota_webhook,      *)
(* running as concurrent request handlers over one reservation table.      *)
(*                                                                         *)
(* Calendar dates are day numbers 1..MaxDay; the raw form/JSON value 0     *)
(* stands for a string dateutil cannot parse.  Guest name and e-mail are   *)
(* stored but never read by the engine and are left out of the rows.       *)
(***************************************************************************)
EXTENDS Integers, FiniteSets, Sequences, TLC

\* ---------------------------------------------------------------- bounds
NumProcs == 2          \* request handlers that can be in flight together
NumRoomTypes == 2      \* rows of the room_type table
MaxQuantity == 2       \* largest RoomType.quantity tried
MaxDay == 3            \* calendar days 1..MaxDay
MaxReservations == 2   \* rows the reservation table may hold
MaxStored == 3         \* rows of an arbitrary pre-existing table

Procs == 1..NumProcs
RoomTypeIds == 1..NumRoomTypes
UnknownRoomTypeId == NumRoomTypes + 1
Days == 1..MaxDay
BadDate == 0
NoDay == 0                          \* Python None for "no blocked day"
NoExternalId == "NULL"              \* external_id IS NULL
Otas == {"booking.com"}                 \* values of data['ota']
ExternalIds == {"X123"}                 \* values of data['external_id']

\* RoomType.quantity of the seeded room types: every room type takes every
\* quantity 0..MaxQuantity, and different room types differ
QuantityConfigs ==
    {[rt \in RoomTypeIds |-> (rt + k) % (MaxQuantity + 1)] : k \in 0..MaxQuantity}

\* (check_in, check_out) as submitted: every well-ordered pair, an empty
\* stay, an inverted stay and an unparseable date
ProperDates == {d \in Days \X Days : d[1] < d[2]}
SeqDates == ProperDates \cup {<<2, 2>>, <<MaxDay, 1>>, <<BadDate, MaxDay>>, <<1, BadDate>>}
SeqRoomTypeIds == {1, NumRoomTypes, UnknownRoomTypeId}

\* the requests raced against each other
ConcDates == {<<1, MaxDay>>, <<2, MaxDay>>}
ConcRoomTypeIds == {1}

VARIABLES
    quantity,       \* RoomType.quantity, by room type id
    reservations,   \* the reservation table: a set of rows
    pc,             \* position of each request handler
    req,            \* the request each handler is serving
    resp            \* the response each handler produced

vars == <<quantity, reservations, pc, req, resp>>

NoReq == [kind |-> "none", room_type_id |-> 0, source |-> "", external_id |-> "",
          check_in |-> 0, check_out |-> 0]
NoResp == [status |-> "none", reservation_id |-> 0, blocked |-> NoDay,
           events |-> <<>>, snapshot |-> <<>>, conflicts |-> <<>>]

Response(status, id, day) ==
    [status |-> status, reservation_id |-> id, blocked |-> day,
     events |-> <<>>, snapshot |-> <<>>, conflicts |-> <<>>]

\* ------------------------------------------------------- pure functions

\* dateutil parse(...).date(): fails on an unparseable string
parse_date_ok(raw) == raw \in Days
parse_date(raw) == raw

\* overlaps with the checkout boundary written check_out < start
overlaps_lt(r, start, end) == ~(r.check_out < start \/ r.check_in >= end)

\* Reservation.overlaps
overlaps(r, start, end) == ~(r.check_out <= start \/ r.check_in >= end)

\* the rows of every room type, the filter on the room type left out
room_reservations_all(rows, rt) == rows

\* rt.reservations: the rows of one room type, as loaded by one SELECT
room_reservations(rows, rt) == {r \in rows : r.room_type_id = rt}

\* the inner for-loop of is_available: rows overlapping the night [d, d+1)
night_count(rows, d) == Cardinality({r \in rows : overlaps(r, d, d + 1)})

\* is_available: scan the nights of [start_date, end_date) in increasing
\* order and stop at the first one whose count reaches quantity
RECURSIVE is_available_from(_, _, _, _)
is_available_from(rows, qty, d, end_date) ==
    IF d < end_date
    THEN IF night_count(rows, d) >= qty
         THEN [ok |-> FALSE, day |-> d]
         ELSE is_available_from(rows, qty, d + 1, end_date)
    ELSE [ok |-> TRUE, day |-> NoDay]

\* is_available with the capacity test written count > quantity
RECURSIVE is_available_from_gt(_, _, _, _)
is_available_from_gt(rows, qty, d, end_date) ==
    IF d < end_date
    THEN IF night_count(rows, d) > qty
         THEN [ok |-> FALSE, day |-> d]
         ELSE is_available_from_gt(rows, qty, d + 1, end_date)
    ELSE [ok |-> TRUE, day |-> NoDay]

is_available_gt(rows, qty, start_date, end_date) ==
    is_available_from_gt(rows, qty, start_date, end_date)

\* is_available counting, on every night, the rows that overlap the whole
\* requested range instead of the night
RECURSIVE is_available_from_range(_, _, _, _, _)
is_available_from_range(rows, qty, d, start_date, end_date) ==
    IF d < end_date
    THEN IF Cardinality({r \in rows : overlaps(r, start_date, end_date)}) >= qty
         THEN [ok |-> FALSE, day |-> d]
         ELSE is_available_from_range(rows, qty, d + 1, start_date, end_date)
    ELSE [ok |-> TRUE, day |-> NoDay]

is_available_whole_range(rows, qty, start_date, end_date) ==
    is_available_from_range(rows, qty, start_date, start_date, end_date)

\* is_available scanning the whole range without the early return, so that
\* the last full night is the one reported
RECURSIVE is_available_from_last(_, _, _, _, _)
is_available_from_last(rows, qty, d, end_date, found) ==
    IF d < end_date
    THEN is_available_from_last(rows, qty, d + 1, end_date,
                                IF night_count(rows, d) >= qty
                                THEN [ok |-> FALSE, day |-> d]
                                ELSE found)
    ELSE found

is_available_last(rows, qty, start_date, end_date) ==
    is_available_from_last(rows, qty, start_date, end_date, [ok |-> TRUE, day |-> NoDay])

is_available(rows, qty, start_date, end_date) ==
    is_available_from(rows, qty, start_date, end_date)

\* primary key given to a new row: one more than the largest id in use
next_id(rows) == Cardinality(rows) + 1

\* Reservation(...) as written by db.session.add / commit
Reservation(id, rt, source, external_id, check_in, check_out) ==
    [id |-> id, room_type_id |-> rt, source |-> source, external_id |-> external_id,
     check_in |-> check_in, check_out |-> check_out]

\* the lookup with the external id left out of the filter values
filter_by_null_id(rows, source, external_id) ==
    {r \in rows : r.source = source /\ r.external_id = NoExternalId}

\* Reservation.query.filter_by(source=..., external_id=...)
filter_by(rows, source, external_id) ==
    {r \in rows : r.source = source /\ r.external_id = external_id}

\* ------------------------------------------------------------ the state

Init ==
    /\ quantity \in QuantityConfigs
    /\ reservations = {}
    /\ pc = [p \in Procs |-> "idle"]
    /\ req = [p \in Procs |-> NoReq]
    /\ resp = [p \in Procs |-> NoResp]

Finish(p, r, answer) ==
    /\ pc' = [pc EXCEPT ![p] = "done"]
    /\ req' = [req EXCEPT ![p] = r]
    /\ resp' = [resp EXCEPT ![p] = answer]

\* --------------------------------------------------------- book_room

\* book_room with the validation written check_in > check_out
book_room_gt(p, room_type_id, raw_in, raw_out) ==
    /\ pc[p] = "idle"
    /\ LET r == [kind |-> "book", room_type_id |-> room_type_id, source |-> "direct",
                 external_id |-> NoExternalId, check_in |-> raw_in, check_out |-> raw_out]
       IN  IF room_type_id \notin RoomTypeIds
           THEN Finish(p, r, Response("not_found", 0, NoDay))
           ELSE IF ~(parse_date_ok(raw_in) /\ parse_date_ok(raw_out))
           THEN Finish(p, r, Response("invalid_date_format", 0, NoDay))
           ELSE IF parse_date(raw_in) > parse_date(raw_out)
           THEN Finish(p, r, Response("checkout_not_after_checkin", 0, NoDay))
           ELSE /\ pc' = [pc EXCEPT ![p] = "book_check"]
                /\ req' = [req EXCEPT ![p] = r]
                /\ UNCHANGED resp
    /\ UNCHANGED <<quantity, reservations>>

\* POST /book/<room_type_id>: lookup of the room type, date parsing and the
\* check_in >= check_out validation
book_room(p, room_type_id, raw_in, raw_out) ==
    /\ pc[p] = "idle"
    /\ LET r == [kind |-> "book", room_type_id |-> room_type_id, source |-> "direct",
                 external_id |-> NoExternalId, check_in |-> raw_in, check_out |-> raw_out]
       IN  IF room_type_id \notin RoomTypeIds
           THEN Finish(p, r, Response("not_found", 0, NoDay))
           ELSE IF ~(parse_date_ok(raw_in) /\ parse_date_ok(raw_out))
           THEN Finish(p, r, Response("invalid_date_format", 0, NoDay))
           ELSE IF parse_date(raw_in) >= parse_date(raw_out)
           THEN Finish(p, r, Response("checkout_not_after_checkin", 0, NoDay))
           ELSE /\ pc' = [pc EXCEPT ![p] = "book_check"]
                /\ req' = [req EXCEPT ![p] = r]
                /\ UNCHANGED resp
    /\ UNCHANGED <<quantity, reservations>>

\* the availability step without the return after the "Not available" flash
book_check_no_return(p) ==
    /\ pc[p] = "book_check"
    /\ pc' = [pc EXCEPT ![p] = "book_insert"]
    /\ UNCHANGED <<quantity, reservations, req, resp>>

\* ok, blocked_day = is_available(rt, check_in, check_out)
book_check(p) ==
    /\ pc[p] = "book_check"
    /\ LET r == req[p]
           a == is_available(room_reservations(reservations, r.room_type_id),
                             quantity[r.room_type_id], r.check_in, r.check_out)
       IN  IF ~a.ok
           THEN Finish(p, r, Response("not_available", 0, a.day))
           ELSE /\ pc' = [pc EXCEPT ![p] = "book_insert"]
                /\ UNCHANGED <<req, resp>>
    /\ UNCHANGED <<quantity, reservations>>

\* db.session.add(res); db.session.commit()
book_insert(p) ==
    /\ pc[p] = "book_insert"
    /\ Cardinality(reservations) < MaxReservations
    /\ LET r == req[p]
           id == next_id(reservations)
       IN  /\ reservations' = reservations \cup
                  {Reservation(id, r.room_type_id, "direct", NoExternalId,
                               r.check_in, r.check_out)}
           /\ Finish(p, r, Response("confirmed", id, NoDay))
    /\ UNCHANGED quantity

\* -------------------------------------------------------- ota_webhook

\* POST /ota/webhook with a field missing from the JSON body
ota_webhook_missing(p) ==
    /\ pc[p] = "idle"
    /\ Finish(p, [NoReq EXCEPT !.kind = "webhook"], Response("missing_fields", 0, NoDay))
    /\ UNCHANGED <<quantity, reservations>>

\* ota_webhook with the duplicate lookup made after the room type lookup and
\* the date parsing
ota_webhook_lookup_last(p, ota, external_id, room_type_id, raw_in, raw_out) ==
    /\ pc[p] = "idle"
    /\ LET r == [kind |-> "webhook", room_type_id |-> room_type_id, source |-> ota,
                 external_id |-> external_id, check_in |-> raw_in, check_out |-> raw_out]
           existing == filter_by(reservations, ota, external_id)
       IN  IF room_type_id \notin RoomTypeIds
           THEN Finish(p, r, Response("invalid_room_type", 0, NoDay))
           ELSE IF ~(parse_date_ok(raw_in) /\ parse_date_ok(raw_out))
           THEN Finish(p, r, Response("invalid_dates", 0, NoDay))
           ELSE IF existing # {}
           THEN \E e \in existing : Finish(p, r, Response("duplicate", e.id, NoDay))
           ELSE /\ pc' = [pc EXCEPT ![p] = "webhook_check"]
                /\ req' = [req EXCEPT ![p] = r]
                /\ UNCHANGED resp
    /\ UNCHANGED <<quantity, reservations>>

\* ota_webhook taking a redelivery as a change of dates of the stored row
ota_webhook_update(p, ota, external_id, room_type_id, raw_in, raw_out) ==
    /\ pc[p] = "idle"
    /\ LET r == [kind |-> "webhook", room_type_id |-> room_type_id, source |-> ota,
                 external_id |-> external_id, check_in |-> raw_in, check_out |-> raw_out]
           existing == filter_by(reservations, ota, external_id)
       IN  IF existing # {}
           THEN \E e \in existing :
                    /\ Finish(p, r, Response("duplicate", e.id, NoDay))
                    /\ reservations' = (reservations \ {e}) \cup
                           {[e EXCEPT !.check_in = raw_in, !.check_out = raw_out]}
           ELSE /\ IF room_type_id \notin RoomTypeIds
                   THEN Finish(p, r, Response("invalid_room_type", 0, NoDay))
                   ELSE IF ~(parse_date_ok(raw_in) /\ parse_date_ok(raw_out))
                   THEN Finish(p, r, Response("invalid_dates", 0, NoDay))
                   ELSE /\ pc' = [pc EXCEPT ![p] = "webhook_check"]
                        /\ req' = [req EXCEPT ![p] = r]
                        /\ UNCHANGED resp
                /\ UNCHANGED reservations
    /\ UNCHANGED quantity

\* POST /ota/webhook: the duplicate lookup, the room type lookup and the
\* date parsing
ota_webhook(p, ota, external_id, room_type_id, raw_in, raw_out) ==
    /\ pc[p] = "idle"
    /\ LET r == [kind |-> "webhook", room_type_id |-> room_type_id, source |-> ota,
                 external_id |-> external_id, check_in |-> raw_in, check_out |-> raw_out]
           existing == filter_by(reservations, ota, external_id)
       IN  IF existing # {}
           THEN \E e \in existing : Finish(p, r, Response("duplicate", e.id, NoDay))
           ELSE IF room_type_id \notin RoomTypeIds
           THEN Finish(p, r, Response("invalid_room_type", 0, NoDay))
           ELSE IF ~(parse_date_ok(raw_in) /\ parse_date_ok(raw_out))
           THEN Finish(p, r, Response("invalid_dates", 0, NoDay))
           ELSE /\ pc' = [pc EXCEPT ![p] = "webhook_check"]
                /\ req' = [req EXCEPT ![p] = r]
                /\ UNCHANGED resp
    /\ UNCHANGED <<quantity, reservations>>

\* ok, blocked = is_available(rt, check_in, check_out)
webhook_check(p) ==
    /\ pc[p] = "webhook_check"
    /\ LET r == req[p]
           a == is_available(room_reservations(reservations, r.room_type_id),
                             quantity[r.room_type_id], r.check_in, r.check_out)
       IN  IF ~a.ok
           THEN Finish(p, r, Response("rejected", 0, a.day))
           ELSE /\ pc' = [pc EXCEPT ![p] = "webhook_insert"]
                /\ UNCHANGED <<req, resp>>
    /\ UNCHANGED <<quantity, reservations>>

\* db.session.add(res); db.session.commit()
webhook_insert(p) ==
    /\ pc[p] = "webhook_insert"
    /\ Cardinality(reservations) < MaxReservations
    /\ LET r == req[p]
           id == next_id(reservations)
       IN  /\ reservations' = reservations \cup
                  {Reservation(id, r.room_type_id, r.source, r.external_id,
                               r.check_in, r.check_out)}
           /\ Finish(p, r, Response("accepted", id, NoDay))
    /\ UNCHANGED quantity

\* the response has been sent; the worker is free for the next request
respond(p) ==
    /\ pc[p] = "done"
    /\ pc' = [pc EXCEPT ![p] = "idle"]
    /\ req' = [req EXCEPT ![p] = NoReq]
    /\ resp' = [resp EXCEPT ![p] = NoResp]
    /\ UNCHANGED <<quantity, reservations>>

\* ------------------------------------------------------ specifications

Step(p, room_type_ids, dates) ==
    \/ \E rt \in room_type_ids, d \in dates : book_room(p, rt, d[1], d[2])
    \/ book_check(p)
    \/ book_insert(p)
    \/ ota_webhook_missing(p)
    \/ \E ota \in Otas, x \in ExternalIds, rt \in room_type_ids, d \in dates :
           ota_webhook(p, ota, x, rt, d[1], d[2])
    \/ webhook_check(p)
    \/ webhook_insert(p)
    \/ respond(p)

\* handlers interleave freely at their database accesses
Next == \E p \in Procs : Step(p, ConcRoomTypeIds, ConcDates)

Spec == Init /\ [][Next]_vars

\* one worker: every request runs to completion before the next one starts
SeqNext == Step(1, SeqRoomTypeIds, SeqDates)

SeqSpec == Init /\ [][SeqNext]_vars

\* ------------------------------------------- is_available on any table

\* a reservation table written by any path (import, manual correction):
\* up to MaxStored rows of any room type, with well-ordered, empty or
\* inverted stays.  No reader depends on the order of the rows, so they are
\* numbered in the order of (room type, check_in, check_out).
StoredDates == ProperDates \cup {<<2, 2>>, <<MaxDay, 1>>}
RowRank(k) == (k[1] * (MaxDay + 1) + k[2][1]) * (MaxDay + 1) + k[2][2]
StoredTables(n) ==
    {{Reservation(i, f[i][1], "direct", NoExternalId, f[i][2][1], f[i][2][2]) : i \in 1..n} :
        f \in {g \in [1..n -> RoomTypeIds \X StoredDates] :
                  \A i \in 1..(n - 1) : RowRank(g[i]) <= RowRank(g[i + 1])}}

PureInit ==
    /\ quantity \in QuantityConfigs
    /\ \E n \in 0..MaxStored : reservations \in StoredTables(n)
    /\ pc = [p \in Procs |-> "idle"]
    /\ req = [p \in Procs |-> NoReq]
    /\ resp = [p \in Procs |-> NoResp]

\* one call is_available(rt, start_date, end_date) on the table as it is
call_is_available(p, rt, start_date, end_date) ==
    /\ pc[p] = "idle"
    /\ LET a == is_available(room_reservations(reservations, rt), quantity[rt],
                             start_date, end_date)
       IN  Finish(p, [kind |-> "is_available", room_type_id |-> rt, source |-> "",
                      external_id |-> "", check_in |-> start_date, check_out |-> end_date],
                  Response(IF a.ok THEN "available" ELSE "blocked", 0, a.day))
    /\ UNCHANGED <<quantity, reservations>>

PureNext ==
    \E rt \in RoomTypeIds, d \in ProperDates \cup {<<2, 2>>} : call_is_available(1, rt, d[1], d[2])

PureSpec == PureInit /\ [][PureNext]_vars

\* ------------------------------ two attempts on different room types

\* the requests of the two attempts
PairDates == {<<1, MaxDay>>, <<2, MaxDay>>, <<2, 2>>, <<BadDate, MaxDay>>}
PairExternalIds == {"X123", "Y456"}

\* the table before the two attempts: empty, or one row written earlier
PairInit ==
    /\ quantity \in QuantityConfigs
    /\ \E n \in 0..1 : reservations \in StoredTables(n)
    /\ pc = [p \in Procs |-> "idle"]
    /\ req = [p \in Procs |-> NoReq]
    /\ resp = [p \in Procs |-> NoResp]

\* one attempt of handler p, on a room type other than that of handler q
PairStep(p, q) ==
    \/ \E rt \in RoomTypeIds \ {req[q].room_type_id}, d \in PairDates :
           book_room(p, rt, d[1], d[2])
    \/ book_check(p)
    \/ book_insert(p)
    \/ \E ota \in Otas, x \in PairExternalIds,
          rt \in RoomTypeIds \ {req[q].room_type_id}, d \in PairDates :
           ota_webhook(p, ota, x, rt, d[1], d[2])
    \/ webhook_check(p)
    \/ webhook_insert(p)

PairNext == PairStep(1, 2) \/ PairStep(2, 1)

PairSpec == PairInit /\ [][PairNext]_vars

\* ------------------------------------------------ read-only operations

\* range(0, 30): the days of the calendar and of the pushed snapshot
WindowDays == 30

\* date.today() as seen by a request
Todays == {1, MaxDay}

\* max(0, n)
max0(n) == IF n > 0 THEN n ELSE 0

\* rt.reservations as a list, in primary-key order
RECURSIVE rows_in_order(_)
rows_in_order(rows) ==
    IF rows = {}
    THEN <<>>
    ELSE LET r == CHOOSE x \in rows : \A y \in rows : x.id <= y.id
         IN  <<r>> \o rows_in_order(rows \ {r})

\* date_map.setdefault(d, []).append(r); the map keeps its keys in the order
\* they were first set
date_map_append(date_map, d, r) ==
    IF \E i \in 1..Len(date_map) : date_map[i].date = d
    THEN [i \in 1..Len(date_map) |->
             IF date_map[i].date = d
             THEN [date |-> d, lst |-> Append(date_map[i].lst, r)]
             ELSE date_map[i]]
    ELSE Append(date_map, [date |-> d, lst |-> <<r>>])

\* the while-loop of admin_reconcile over the nights of one reservation
RECURSIVE date_map_nights(_, _, _)
date_map_nights(date_map, r, d) ==
    IF d < r.check_out
    THEN date_map_nights(date_map_append(date_map, d, r), r, d + 1)
    ELSE date_map

\* the for-loop of admin_reconcile over the reservations of one room type
RECURSIVE build_date_map(_, _, _)
build_date_map(lst, i, date_map) ==
    IF i > Len(lst)
    THEN date_map
    ELSE build_date_map(lst, i + 1, date_map_nights(date_map, lst[i], lst[i].check_in))

\* the report loop written len(lst) >= rt.quantity
RECURSIVE room_conflicts_ge(_, _, _, _)
room_conflicts_ge(date_map, i, qty, rt) ==
    IF i > Len(date_map)
    THEN <<>>
    ELSE (IF Len(date_map[i].lst) >= qty
          THEN <<[room_type |-> rt, date |-> date_map[i].date,
                  count |-> Len(date_map[i].lst), reservations |-> date_map[i].lst]>>
          ELSE <<>>) \o room_conflicts_ge(date_map, i + 1, qty, rt)

\* for d, lst in date_map.items(): a conflict when len(lst) > rt.quantity
RECURSIVE room_conflicts(_, _, _, _)
room_conflicts(date_map, i, qty, rt) ==
    IF i > Len(date_map)
    THEN <<>>
    ELSE (IF Len(date_map[i].lst) > qty
          THEN <<[room_type |-> rt, date |-> date_map[i].date,
                  count |-> Len(date_map[i].lst), reservations |-> date_map[i].lst]>>
          ELSE <<>>) \o room_conflicts(date_map, i + 1, qty, rt)

\* for rt in rts: the conflicts of every room type, in room-type order
RECURSIVE reconcile_from(_, _, _)
reconcile_from(rows, qty, rt) ==
    IF rt > NumRoomTypes
    THEN <<>>
    ELSE room_conflicts(build_date_map(rows_in_order(room_reservations(rows, rt)), 1, <<>>),
                        1, qty[rt], rt)
         \o reconcile_from(rows, qty, rt + 1)

\* GET /admin/reconcile
admin_reconcile(p) ==
    /\ pc[p] = "idle"
    /\ Finish(p, [NoReq EXCEPT !.kind = "reconcile"],
              [Response("conflicts", 0, NoDay) EXCEPT
                   !.conflicts = reconcile_from(reservations, quantity, 1)])
    /\ UNCHANGED <<quantity, reservations>>

\* the availability loop with the floor at zero left out
availability_unfloored(rows, qty, today) ==
    [i \in 1..WindowDays |->
        [date |-> today + (i - 1),
         available |-> qty - night_count(rows, today + (i - 1))]]

\* for i in range(0, 30): available = max(0, rt.quantity - count)
availability(rows, qty, today) ==
    [i \in 1..WindowDays |->
        [date |-> today + (i - 1),
         available |-> max0(qty - night_count(rows, today + (i - 1)))]]

\* the reservation events of the calendar, one per row of the room type
reservation_events(lst) ==
    [i \in 1..Len(lst) |->
        [id |-> lst[i].id, start |-> lst[i].check_in, end |-> lst[i].check_out,
         source |-> lst[i].source]]

\* GET /api/calendar_events/<room_type_id>
api_calendar_events(p, room_type_id, today) ==
    /\ pc[p] = "idle"
    /\ LET r == [NoReq EXCEPT !.kind = "calendar", !.room_type_id = room_type_id,
                              !.check_in = today]
       IN  IF room_type_id \notin RoomTypeIds
           THEN Finish(p, r, Response("not_found", 0, NoDay))
           ELSE LET mine == room_reservations(reservations, room_type_id)
                IN  Finish(p, r,
                           [Response("events", 0, NoDay) EXCEPT
                                !.events = reservation_events(rows_in_order(mine)),
                                !.snapshot = availability(mine, quantity[room_type_id], today)])
    /\ UNCHANGED <<quantity, reservations>>

\* GET /ota/push_availability/<ota_name>/<room_type_id>
ota_push_availability(p, ota_name, room_type_id, today) ==
    /\ pc[p] = "idle"
    /\ LET r == [NoReq EXCEPT !.kind = "push", !.room_type_id = room_type_id,
                              !.source = ota_name, !.check_in = today]
       IN  IF room_type_id \notin RoomTypeIds
           THEN Finish(p, r, Response("not_found", 0, NoDay))
           ELSE Finish(p, r,
                       [Response("snapshot", 0, NoDay) EXCEPT
                            !.snapshot = availability(room_reservations(reservations, room_type_id),
                                                      quantity[room_type_id], today)])
    /\ UNCHANGED <<quantity, reservations>>

Read(p) ==
    \/ admin_reconcile(p)
    \/ \E rt \in RoomTypeIds \cup {UnknownRoomTypeId}, today \in Todays :
           api_calendar_events(p, rt, today)
    \/ \E ota \in Otas, rt \in RoomTypeIds \cup {UnknownRoomTypeId}, today \in Todays :
           ota_push_availability(p, ota, rt, today)

\* the read-only operations on any table
ReadNext == Read(1)

ReadSpec == PureInit /\ [][ReadNext]_vars

\* one worker serving every operation, writes and reads, one after the other
OpsNext == SeqNext \/ Read(1)

OpsSpec == Init /\ [][OpsNext]_vars

TypeOK ==
    /\ quantity \in QuantityConfigs
    /\ pc \in [Procs -> {"idle", "book_check", "book_insert", "webhook_check",
                         "webhook_insert", "done"}]

\* ------------------------------------------------ vocabulary of the claims

\* the span [check_in, check_out) of r covers day d
covers(r, d) == r.check_in <= d /\ d < r.check_out

\* number of stored reservations on room type rt covering day d
occupancy(rows, rt, d) == Cardinality({r \in rows : r.room_type_id = rt /\ covers(r, d)})

\* stored rows carrying the idempotency key (source, external_id)
key_rows(rows, source, external_id) ==
    {r \in rows : r.source = source /\ r.external_id = external_id}

Min(S) == CHOOSE x \in S : \A y \in S : x <= y

IsRefusal(answer) == answer.status \in {"not_available", "rejected"}
IsSuccess(answer) == answer.status \in {"confirmed", "accepted"}

\* -------------------------------------------------------------- claims

\* C1: starting from an empty table, after any sequence of direct bookings
\* and webhook deliveries that each run to completion before the next one
\* starts, every room type has at most quantity reservations covering any
\* calendar day.
C1_CapacityInvariant ==
    \A rt \in RoomTypeIds, d \in Days : occupancy(reservations, rt, d) <= quantity[rt]

\* a night sold out at quantity 2 by one direct and one webhook reservation,
\* and a further attempt on it refused
C1_Witness ==
    \E rt \in RoomTypeIds, d \in Days, p \in Procs :
        /\ quantity[rt] = 2
        /\ occupancy(reservations, rt, d) = 2
        /\ \E r1, r2 \in reservations :
               /\ r1.room_type_id = rt /\ r2.room_type_id = rt
               /\ covers(r1, d) /\ covers(r2, d)
               /\ r1.source = "direct" /\ r2.source # "direct"
        /\ pc[p] = "done" /\ IsRefusal(resp[p])
        /\ req[p].room_type_id = rt /\ resp[p].blocked = d

\* C2: with booking attempts in flight at the same time and their
\* availability reads and inserts interleaved, occupancy never exceeds
\* quantity on any day; with quantity 1, two attempts for the same range
\* never both succeed.
C2_AtomicCheckThenCommit ==
    /\ \A rt \in RoomTypeIds, d \in Days :
           Cardinality({r \in reservations : r.room_type_id = rt /\ covers(r, d)})
               <= quantity[rt]
    /\ \A p, q \in Procs :
           (/\ p # q
            /\ pc[p] = "done" /\ pc[q] = "done"
            /\ req[p].room_type_id = req[q].room_type_id
            /\ req[p].room_type_id \in RoomTypeIds
            /\ quantity[req[p].room_type_id] = 1
            /\ req[p].check_in = req[q].check_in /\ req[p].check_out = req[q].check_out
            /\ req[p].check_in < req[p].check_out)
           => ~(IsSuccess(resp[p]) /\ IsSuccess(resp[q]))

\* C3: with deliveries running one after the other, a delivery that is
\* Accepted with id N leaves exactly one stored row with its
\* (source, external_id), that row has id N and is never removed, and a
\* delivery that finds a row with its key returns Duplicate with the id of
\* that row and leaves exactly one row with the key.
C3_WebhookIdempotence ==
    [][\A p \in Procs :
        /\ (pc[p] = "webhook_insert" /\ pc'[p] = "done") =>
               /\ resp'[p].status = "accepted"
               /\ key_rows(reservations', req[p].source, req[p].external_id)
                    = {r \in reservations' : r.id = resp'[p].reservation_id}
               /\ Cardinality(key_rows(reservations', req[p].source, req[p].external_id)) = 1
        /\ (/\ pc[p] = "idle"
            /\ req'[p].kind = "webhook"
            /\ key_rows(reservations, req'[p].source, req'[p].external_id) # {}) =>
               /\ pc'[p] = "done"
               /\ resp'[p].status = "duplicate"
               /\ key_rows(reservations', req'[p].source, req'[p].external_id)
                    = {r \in reservations' : r.id = resp'[p].reservation_id}
               /\ Cardinality(key_rows(reservations', req'[p].source, req'[p].external_id)) = 1
        /\ \A r \in reservations : r.external_id # NoExternalId => r \in reservations'
      ]_vars

\* a redelivery answered Duplicate with the id of the one row holding its
\* key, on a room type and for dates other than the stored ones
C3_Witness ==
    \E p \in Procs, r \in reservations :
        /\ pc[p] = "done" /\ req[p].kind = "webhook"
        /\ resp[p].status = "duplicate" /\ resp[p].reservation_id = r.id
        /\ key_rows(reservations, req[p].source, req[p].external_id) = {r}
        /\ r.id = 2
        /\ req[p].room_type_id # r.room_type_id

\* C4: in every reachable state, deliveries racing included, at most one
\* stored reservation carries a given (source, external_id) with a non-null
\* external_id.
C4_UniqueIdempotencyKey ==
    \A r1, r2 \in reservations :
        (/\ r1.external_id # NoExternalId
         /\ r1.source = r2.source
         /\ r1.external_id = r2.external_id) => r1 = r2

\* C5: a completed webhook delivery with a new key, a known room type and
\* parsed dates with check_in >= check_out was answered "invalid dates",
\* and no row with its key and dates is stored.
C5_WebhookDateValidation ==
    \A p \in Procs :
        (/\ pc[p] = "done"
         /\ req[p].kind = "webhook"
         /\ req[p].room_type_id \in RoomTypeIds
         /\ parse_date_ok(req[p].check_in) /\ parse_date_ok(req[p].check_out)
         /\ req[p].check_in >= req[p].check_out
         /\ resp[p].status # "duplicate")
        => /\ resp[p].status = "invalid_dates"
           /\ ~\E r \in key_rows(reservations, req[p].source, req[p].external_id) :
                  r.check_in = req[p].check_in /\ r.check_out = req[p].check_out

\* C6: every stored reservation has check_in < check_out.
C6_DateOrderInvariant ==
    \A r \in reservations : r.check_in < r.check_out

\* the days of [start, end) on which room type rt is at or above quantity
BlockedDays(rows, qty, rt, start, end) ==
    {d \in start..(end - 1) : occupancy(rows, rt, d) >= qty[rt]}

\* C7: for every room type, every stored table and every range with
\* start < end, is_available answers Available exactly when every day of
\* [start, end) has occupancy below quantity, and otherwise Blocked(d) with d
\* the earliest day of the range whose occupancy is at or above quantity.
C7_AvailabilityResult ==
    \A p \in Procs :
        (req[p].kind = "is_available" /\ req[p].check_in < req[p].check_out) =>
            LET blocked == BlockedDays(reservations, quantity, req[p].room_type_id,
                                       req[p].check_in, req[p].check_out)
            IN  IF blocked = {}
                THEN resp[p].status = "available" /\ resp[p].blocked = NoDay
                ELSE resp[p].status = "blocked" /\ resp[p].blocked = Min(blocked)

\* a call answered Blocked on a day after the first day of the range, on a
\* positive quantity, with an empty or inverted row stored on the room type
C7_Witness ==
    \E p \in Procs :
        /\ req[p].kind = "is_available"
        /\ resp[p].status = "blocked"
        /\ resp[p].blocked > req[p].check_in
        /\ quantity[req[p].room_type_id] = 2
        /\ \E r \in reservations :
               r.room_type_id = req[p].room_type_id /\ r.check_in >= r.check_out

\* C8: whenever the availability step of a direct booking or of a webhook
\* delivery finds a day of the requested range at or above quantity, the
\* call is refused there, the stored reservations are unchanged, and the
\* response carries the earliest such day.
C8_NoSideEffectsOnConflict ==
    [][\A p \in Procs :
        (/\ pc[p] \in {"book_check", "webhook_check"}
         /\ pc'[p] # pc[p]
         /\ BlockedDays(reservations, quantity, req[p].room_type_id,
                        req[p].check_in, req[p].check_out) # {}) =>
            /\ pc'[p] = "done"
            /\ IsRefusal(resp'[p])
            /\ reservations' = reservations
            /\ resp'[p].blocked = Min(BlockedDays(reservations, quantity, req[p].room_type_id,
                                                   req[p].check_in, req[p].check_out))
      ]_vars

\* a direct booking refused on a day after its check_in, with the table
\* still holding the one row it held
C8_Witness ==
    \E p \in Procs :
        /\ pc[p] = "done" /\ req[p].kind = "book"
        /\ resp[p].status = "not_available"
        /\ resp[p].blocked > req[p].check_in
        /\ Cardinality(reservations) = 1

\* C9: a direct booking on a known room type whose parsed dates have
\* check_in >= check_out ends in the validation error in its first step,
\* without reaching the availability check, and leaves the stored
\* reservations unchanged.
C9_DirectBookingValidation ==
    [][\A p \in Procs :
        (/\ pc[p] = "idle"
         /\ req'[p].kind = "book"
         /\ req'[p].room_type_id \in RoomTypeIds
         /\ parse_date_ok(req'[p].check_in) /\ parse_date_ok(req'[p].check_out)
         /\ req'[p].check_in >= req'[p].check_out) =>
            /\ pc'[p] = "done"
            /\ resp'[p].status = "checkout_not_after_checkin"
            /\ reservations' = reservations
      ]_vars

\* a direct booking with check_in = check_out refused on a room type that
\* had a free night for it
C9_Witness ==
    \E p \in Procs :
        /\ pc[p] = "done" /\ req[p].kind = "book"
        /\ resp[p].status = "checkout_not_after_checkin"
        /\ req[p].check_in = req[p].check_out
        /\ quantity[req[p].room_type_id] > 0
        /\ reservations = {}

\* C10: a stored reservation [a, b) with a < b overlaps a range [s, e) with
\* s < e exactly when some calendar day lies in both; and with quantity 1
\* and [a, b) the only reservation of the room type, a booking or delivery
\* for a range starting at or after b passes the availability step and is
\* then stored, while one for a range that starts before b and ends after a
\* is refused.
C10_HalfOpenOverlap ==
    [][/\ \A r \in reservations, d \in ProperDates :
            r.check_in < r.check_out =>
                (overlaps(r, d[1], d[2]) <=>
                    \E day \in Days : covers(r, day) /\ d[1] <= day /\ day < d[2])
       /\ \A p \in Procs :
            /\ (/\ pc[p] \in {"book_check", "webhook_check"}
                /\ pc'[p] # pc[p]
                /\ quantity[req[p].room_type_id] = 1
                /\ req[p].check_in < req[p].check_out) =>
                   \A r \in reservations :
                       (/\ r.check_in < r.check_out
                        /\ {x \in reservations : x.room_type_id = req[p].room_type_id} = {r}) =>
                          /\ req[p].check_in >= r.check_out =>
                                 pc'[p] \in {"book_insert", "webhook_insert"}
                          /\ (req[p].check_in < r.check_out /\ req[p].check_out > r.check_in) =>
                                 (pc'[p] = "done" /\ IsRefusal(resp'[p]))
            /\ (pc[p] \in {"book_insert", "webhook_insert"} /\ pc'[p] # pc[p]) =>
                   /\ IsSuccess(resp'[p])
                   /\ \E r \in reservations' \ reservations :
                          /\ r.id = resp'[p].reservation_id
                          /\ r.room_type_id = req[p].room_type_id
                          /\ r.check_in = req[p].check_in /\ r.check_out = req[p].check_out
      ]_vars

\* same-day turnover on a room type with quantity 1: [a, b) stored, then a
\* booking for [b, c) confirmed and stored
C10_Witness ==
    \E p \in Procs, r1, r2 \in reservations :
        /\ pc[p] = "done" /\ IsSuccess(resp[p])
        /\ quantity[r1.room_type_id] = 1
        /\ r1.room_type_id = r2.room_type_id
        /\ r1.check_in < r1.check_out
        /\ r2.check_in = r1.check_out /\ r2.check_in < r2.check_out
        /\ r2.id = resp[p].reservation_id /\ r1.id < r2.id

Max(S) == CHOOSE x \in S : \A y \in S : x >= y

\* the rows of the room type a request is for
requested_rows(p) == {r \in reservations : r.room_type_id = req[p].room_type_id}

\* two rows of one room type holding the identical range [check_in, check_out)
SameRangeTwice(rows) ==
    \E r1, r2 \in rows :
        /\ r1 # r2 /\ rows = {r1, r2}
        /\ r1.check_in = r2.check_in /\ r1.check_out = r2.check_out
        /\ r1.check_in < r1.check_out

\* C11 as stated: on a room type with quantity 2 holding exactly two
\* reservations for one identical range, a third attempt whose range overlaps
\* that range is refused and the first blocked day it reports is the first
\* day of its own requested range.
C11_ThirdBlockedOnRequestedFirstDay ==
    \A p \in Procs :
        (/\ pc[p] = "done" /\ req[p].kind \in {"book", "webhook"}
         /\ req[p].room_type_id \in RoomTypeIds
         /\ quantity[req[p].room_type_id] = 2
         /\ SameRangeTwice(requested_rows(p))
         /\ req[p].check_in \in Days /\ req[p].check_out \in Days
         /\ req[p].check_in < req[p].check_out
         /\ \A r \in requested_rows(p) :
                req[p].check_in < r.check_out /\ r.check_in < req[p].check_out
         /\ \A r \in requested_rows(p) : r.id # resp[p].reservation_id
         /\ resp[p].status # "duplicate") =>
            /\ IsRefusal(resp[p])
            /\ resp[p].blocked = req[p].check_in

\* C11: on a room type with quantity 2 and no reservations, an attempt for a
\* range passes the availability check, and so does a second one for the
\* identical range once the first is stored; each is then stored and answered
\* with success. With both stored, an attempt whose range overlaps that range
\* is refused, and the first blocked day it reports is the first day of its
\* range that lies in the stored range: the later of its own check_in and the
\* stored check_in.
C11_ScenarioA ==
    [][ \A p \in Procs :
            /\ (/\ pc[p] \in {"book_check", "webhook_check"}
                /\ pc'[p] # pc[p]
                /\ quantity[req[p].room_type_id] = 2
                /\ req[p].check_in < req[p].check_out) =>
                   /\ requested_rows(p) = {} => pc'[p] \in {"book_insert", "webhook_insert"}
                   /\ (\E r \in reservations :
                          /\ requested_rows(p) = {r}
                          /\ r.check_in = req[p].check_in
                          /\ r.check_out = req[p].check_out) =>
                             pc'[p] \in {"book_insert", "webhook_insert"}
                   /\ (/\ SameRangeTwice(requested_rows(p))
                       /\ \A r \in requested_rows(p) :
                              req[p].check_in < r.check_out /\ r.check_in < req[p].check_out) =>
                          /\ pc'[p] = "done"
                          /\ IsRefusal(resp'[p])
                          /\ reservations' = reservations
                          /\ \A r \in requested_rows(p) :
                                 resp'[p].blocked = Max({req[p].check_in, r.check_in})
            /\ (/\ pc[p] \in {"book_insert", "webhook_insert"}
                /\ pc'[p] # pc[p]
                /\ quantity[req[p].room_type_id] = 2
                /\ Cardinality(requested_rows(p)) < 2) =>
                   /\ IsSuccess(resp'[p])
                   /\ Cardinality({r \in reservations' :
                                      r.room_type_id = req[p].room_type_id})
                          = Cardinality(requested_rows(p)) + 1
      ]_vars

\* two reservations for one identical range stored on a room type with
\* quantity 2, and a third attempt that starts before that range refused with
\* the first day of the stored range
C11_Witness ==
    \E p \in Procs :
        /\ pc[p] = "done" /\ IsRefusal(resp[p])
        /\ quantity[req[p].room_type_id] = 2
        /\ SameRangeTwice(requested_rows(p))
        /\ \A r \in requested_rows(p) :
               /\ req[p].check_in < r.check_in /\ r.check_in < req[p].check_out
               /\ resp[p].blocked = r.check_in

\* the stored reservations of room type rt whose span covers day d
covering(rows, rt, d) == {r \in rows : r.room_type_id = rt /\ covers(r, d)}

\* the set of elements of a sequence
Range(seq) == {seq[i] : i \in 1..Len(seq)}

\* C12: on any table, oversubscribed ones included, the reconciliation scan
\* reports exactly one conflict for each (room type, day) whose count of
\* covering reservations exceeds the room type's quantity, listing every
\* reservation covering that day once and their count, and reports no
\* conflict for a pair whose count is at most quantity.
C12_Reconciliation ==
    \A p \in Procs :
        (pc[p] = "done" /\ req[p].kind = "reconcile") =>
            LET c == resp[p].conflicts
            IN  /\ \A i \in 1..Len(c) : c[i].room_type \in RoomTypeIds /\ c[i].date \in Days
                /\ \A rt \in RoomTypeIds, d \in Days :
                       LET hits == {i \in 1..Len(c) : c[i].room_type = rt /\ c[i].date = d}
                           over == covering(reservations, rt, d)
                       IN  IF Cardinality(over) > quantity[rt]
                           THEN /\ Cardinality(hits) = 1
                                /\ \A i \in hits :
                                       /\ Range(c[i].reservations) = over
                                       /\ Len(c[i].reservations) = Cardinality(over)
                                       /\ c[i].count = Cardinality(over)
                           ELSE hits = {}

\* Scenario D: three reservations covering one day of a room type with
\* quantity 2, a day of the same table filled exactly to quantity, and a scan
\* that reports the first day only
C12_Witness ==
    \E p \in Procs, rt \in RoomTypeIds, d, e \in Days :
        /\ pc[p] = "done" /\ req[p].kind = "reconcile"
        /\ quantity[rt] = 2
        /\ occupancy(reservations, rt, d) = 3
        /\ occupancy(reservations, rt, e) = 2
        /\ \E i \in 1..Len(resp[p].conflicts) :
               /\ resp[p].conflicts[i].room_type = rt
               /\ resp[p].conflicts[i].date = d
               /\ resp[p].conflicts[i].count = 3
        /\ \A i \in 1..Len(resp[p].conflicts) :
               ~(resp[p].conflicts[i].room_type = rt /\ resp[p].conflicts[i].date = e)

\* C13: with deliveries running one after the other, once a reservation with
\* the key (source, external_id) is stored, every later delivery carrying all
\* required fields and that key is answered Duplicate with the id of that
\* reservation before anything else is looked at, and the table is left as it
\* was: so for an unknown room type, unparseable or inverted dates and a
\* fully booked range, and however often it is repeated.
C13_DuplicateCheckFirst ==
    [][ \A p \in Procs :
            (/\ pc[p] = "idle"
             /\ req'[p].kind = "webhook"
             /\ key_rows(reservations, req'[p].source, req'[p].external_id) # {}) =>
                /\ pc'[p] = "done"
                /\ resp'[p].status = "duplicate"
                /\ \A r \in key_rows(reservations, req'[p].source, req'[p].external_id) :
                       resp'[p].reservation_id = r.id
                /\ reservations' = reservations
      ]_vars

\* a redelivery of a stored key that names an unknown room type and an
\* unparseable check_in, answered Duplicate with the id of the stored row
C13_Witness ==
    \E p \in Procs, r \in reservations :
        /\ pc[p] = "done" /\ req[p].kind = "webhook"
        /\ r.source = req[p].source /\ r.external_id = req[p].external_id
        /\ req[p].room_type_id = UnknownRoomTypeId
        /\ req[p].check_in = BadDate
        /\ resp[p].status = "duplicate" /\ resp[p].reservation_id = r.id

\* a stored reservation without its primary key
Content(r) == [r EXCEPT !.id = 0]
StoreContent(rows) == {Content(r) : r \in rows}

\* the answer (status, first blocked day) of attempt a when it runs from
\* start to end with nothing else running, on a table with content rows
AloneAnswer(rows, a) ==
    IF a.kind = "webhook" /\ key_rows(rows, a.source, a.external_id) # {}
    THEN <<"duplicate", NoDay>>
    ELSE IF a.check_in \notin Days \/ a.check_out \notin Days
    THEN <<IF a.kind = "book" THEN "invalid_date_format" ELSE "invalid_dates", NoDay>>
    ELSE IF a.kind = "book" /\ a.check_in >= a.check_out
    THEN <<"checkout_not_after_checkin", NoDay>>
    ELSE LET b == BlockedDays(rows, quantity, a.room_type_id, a.check_in, a.check_out)
         IN  IF b # {}
             THEN <<IF a.kind = "book" THEN "not_available" ELSE "rejected", Min(b)>>
             ELSE <<IF a.kind = "book" THEN "confirmed" ELSE "accepted", NoDay>>

\* the content of the table after attempt a has run alone on rows
AloneStore(rows, a) ==
    IF AloneAnswer(rows, a)[1] \in {"confirmed", "accepted"}
    THEN rows \cup {Reservation(0, a.room_type_id, a.source, a.external_id,
                                a.check_in, a.check_out)}
    ELSE rows

\* the rows stored before the two attempts began
RowsBefore ==
    {r \in reservations :
        \A p \in {1, 2} : IsSuccess(resp[p]) => r.id # resp[p].reservation_id}

\* both attempts are answered as, and leave the table as, running a and
\* then b one after the other
AsOneAfterTheOther(a, b) ==
    LET before == StoreContent(RowsBefore)
        between == AloneStore(before, req[a])
    IN  /\ <<resp[a].status, resp[a].blocked>> = AloneAnswer(before, req[a])
        /\ <<resp[b].status, resp[b].blocked>> = AloneAnswer(between, req[b])
        /\ StoreContent(reservations) = AloneStore(between, req[b])

\* C14 as stated: for any two attempts on different room types, however
\* their steps interleave, each is answered as, and the table ends as, when
\* they run one after the other, in either order.
C14_AnyTwoAttemptsIndependent ==
    (pc[1] = "done" /\ pc[2] = "done") =>
        AsOneAfterTheOther(1, 2) /\ AsOneAfterTheOther(2, 1)

\* the two attempts are webhook deliveries carrying one (source, external_id)
SameKeyDeliveries ==
    /\ req[1].kind = "webhook" /\ req[2].kind = "webhook"
    /\ req[1].source = req[2].source
    /\ req[1].external_id = req[2].external_id

\* C14: for any two attempts on different room types that are not two
\* webhook deliveries with the same (source, external_id), however their
\* steps interleave, each is answered as, and the table ends as, when they
\* run one after the other, in either order.
C14_IndependentAcrossRoomTypes ==
    (pc[1] = "done" /\ pc[2] = "done" /\ ~SameKeyDeliveries) =>
        AsOneAfterTheOther(1, 2) /\ AsOneAfterTheOther(2, 1)

\* a direct booking refused on day 2 because of a row stored earlier on its
\* room type, and a webhook delivery accepted on the other room type, both
\* in flight at the same time
C14_Witness ==
    /\ pc[1] = "done" /\ pc[2] = "done"
    /\ req[1].kind = "book" /\ req[2].kind = "webhook"
    /\ req[1].room_type_id # req[2].room_type_id
    /\ resp[1].status = "not_available" /\ resp[1].blocked = 2
    /\ req[1].check_in = 1
    /\ resp[2].status = "accepted" /\ resp[2].reservation_id = 2
    /\ Cardinality(reservations) = 2

\* handler p has answered a calendar or push request with a snapshot
SnapshotAnswered(p) ==
    /\ pc[p] = "done"
    /\ \/ req[p].kind = "calendar" /\ resp[p].status = "events"
       \/ req[p].kind = "push" /\ resp[p].status = "snapshot"

\* C15: on any table, the calendar and the pushed snapshot hold one entry for
\* each of the 30 days from today on, in order; the available count of day d
\* is quantity minus the number of reservations covering d when that is
\* positive and 0 otherwise, so it is never negative, and it is quantity on
\* every day when the room type has no reservations.
C15_CalendarAvailability ==
    \A p \in Procs :
        SnapshotAnswered(p) =>
            LET rt == req[p].room_type_id
                today == req[p].check_in
                snap == resp[p].snapshot
            IN  /\ Len(snap) = WindowDays
                /\ \A i \in 1..WindowDays :
                       LET d == today + (i - 1)
                           free == quantity[rt] - occupancy(reservations, rt, d)
                       IN  /\ snap[i].date = d
                           /\ snap[i].available = IF free > 0 THEN free ELSE 0
                           /\ snap[i].available >= 0
                           /\ {r \in reservations : r.room_type_id = rt} = {}
                                  => snap[i].available = quantity[rt]

\* a pushed snapshot of a room type with quantity 1 showing 0 on a day that
\* three reservations cover and 1 on the last day of the window
C15_Witness ==
    \E p \in Procs, i \in 1..WindowDays :
        /\ SnapshotAnswered(p) /\ req[p].kind = "push"
        /\ quantity[req[p].room_type_id] = 1
        /\ occupancy(reservations, req[p].room_type_id, resp[p].snapshot[i].date) = 3
        /\ resp[p].snapshot[i].available = 0
        /\ resp[p].snapshot[WindowDays].available = 1

\* C16: every step of every operation keeps each stored reservation in the
\* table with all its fields; a step adds at most one reservation, under an
\* id no stored reservation has, and only the insert of a direct booking or
\* of a webhook delivery adds one; the reconciliation scan, the calendar and
\* the pushed snapshot add none.
C16_AppendOnly ==
    [][ /\ reservations \subseteq reservations'
        /\ Cardinality(reservations' \ reservations) <= 1
        /\ \A n \in reservations' \ reservations, r \in reservations : n.id # r.id
        /\ reservations' # reservations =>
               \E p \in Procs : /\ pc[p] \in {"book_insert", "webhook_insert"}
                                /\ pc'[p] = "done"
        /\ \A p \in Procs :
               (pc[p] = "idle" /\ req'[p].kind \in {"reconcile", "calendar", "push"}) =>
                   reservations' = reservations
      ]_vars

\* a direct booking and a webhook reservation stored, in that order, and a
\* reconciliation scan answered on that table
C16_Witness ==
    \E p \in Procs, r1, r2 \in reservations :
        /\ pc[p] = "done" /\ req[p].kind = "reconcile"
        /\ r1.id = 1 /\ r1.source = "direct"
        /\ r2.id = 2 /\ r2.source \in Otas
        /\ reservations = {r1, r2}

\* C17: for every room type and every range with start < end, if
\* is_available answers Blocked(d) on the table before a step, it answers
\* Blocked(e) with e <= d on the table after the step; so once a range is
\* blocked on day d, every later call for it is blocked on d or earlier.
C17_BlockedStaysBlocked ==
    [][ \A rt \in RoomTypeIds, range \in ProperDates :
            LET before == is_available(room_reservations(reservations, rt),
                                       quantity[rt], range[1], range[2])
                after == is_available(room_reservations(reservations', rt),
                                      quantity'[rt], range[1], range[2])
            IN  ~before.ok => (~after.ok /\ after.day <= before.day)
      ]_vars

\* a room type with quantity 1 whose first reservation holds day 2 and whose
\* second, stored later, holds day 1: the range [1, 3), blocked on day 2
\* after the first, is refused on day 1 after the second
C17_Witness ==
    \E p \in Procs, r1, r2 \in reservations :
        /\ pc[p] = "done" /\ IsRefusal(resp[p])
        /\ quantity[req[p].room_type_id] = 1
        /\ req[p].check_in = 1 /\ req[p].check_out = 3
        /\ r1.room_type_id = req[p].room_type_id /\ r2.room_type_id = req[p].room_type_id
        /\ r1.id < r2.id
        /\ r1.check_in = 2 /\ r1.check_out = 3
        /\ r2.check_in = 1 /\ r2.check_out = 2
        /\ resp[p].blocked = 1

\* every completed direct booking, and every completed webhook delivery with
\* a new key, for a range with check_in < check_out on a room type with
\* quantity 0 is refused with first blocked day check_in
ZeroQuantityRefuses ==
    \A p \in Procs :
        (/\ pc[p] = "done" /\ req[p].kind \in {"book", "webhook"}
         /\ req[p].room_type_id \in RoomTypeIds
         /\ quantity[req[p].room_type_id] = 0
         /\ req[p].check_in \in Days /\ req[p].check_out \in Days
         /\ req[p].check_in < req[p].check_out
         /\ resp[p].status # "duplicate") =>
            /\ IsRefusal(resp[p])
            /\ resp[p].blocked = req[p].check_in

\* C18: for a room type with quantity 0, every direct booking and every
\* webhook delivery with a new key and check_in < check_out is refused with
\* first blocked day check_in, and no reservation is ever stored for that
\* room type.
C18_ZeroQuantitySellsNothing ==
    /\ ZeroQuantityRefuses
    /\ \A r \in reservations : quantity[r.room_type_id] # 0

\* C19: on any table, for every day d of a snapshot of a room type, the
\* available count is 0 exactly when is_available answers Blocked(d) for the
\* one-night range [d, d + 1) on that table, and positive exactly when it
\* answers Available.
C19_SnapshotAgreesWithChecker ==
    \A p \in Procs :
        SnapshotAnswered(p) =>
            \A i \in 1..Len(resp[p].snapshot) :
                LET d == resp[p].snapshot[i].date
                    a == is_available(room_reservations(reservations, req[p].room_type_id),
                                      quantity[req[p].room_type_id], d, d + 1)
                IN  /\ resp[p].snapshot[i].available = 0 <=> (~a.ok /\ a.day = d)
                    /\ resp[p].snapshot[i].available > 0 <=> a.ok

\* a calendar of a room type with quantity 2 whose first day is filled
\* exactly to quantity and shows 0, and whose second day shows 1
C19_Witness ==
    \E p \in Procs :
        /\ SnapshotAnswered(p) /\ req[p].kind = "calendar"
        /\ quantity[req[p].room_type_id] = 2
        /\ occupancy(reservations, req[p].room_type_id, resp[p].snapshot[1].date) = 2
        /\ resp[p].snapshot[1].available = 0
        /\ ~is_available(room_reservations(reservations, req[p].room_type_id), 2,
                         resp[p].snapshot[1].date, resp[p].snapshot[1].date + 1).ok
        /\ resp[p].snapshot[2].available = 1
====
